---- MODULE Spec2Model ----
(***************************************************************************)
(* A model of the whiteboard processor: the production CLI                 *)
(* (app/process_whiteboard.py) and the evaluation harness                  *)
(* (eval/run_eval.py).                                                     *)
(*                                                                         *)
(* The filesystem (queue root, processed root, enhanced-output tree), the  *)
(* wall clock, the terminal and the remote provider are the environment:   *)
(* their answers are inputs drawn by the actions.  Strings are TLA+        *)
(* strings and the conversions the code applies to them (lower, replace,   *)
(* startswith, int, sorted, strftime) are computed on their characters.    *)
(***************************************************************************)
EXTENDS Integers, Sequences, FiniteSets, TLC

----------------------------------------------------------------------------
(* Bounds of the model *)

\* largest number of images in a queue folder
MaxImages == 3
\* last instant of the wall clock
MaxClock == 2
\* instants per calendar day
TicksPerDay == 2
\* answers the folder menu reads before only valid answers are drawn
MaxPrompts == 2

----------------------------------------------------------------------------
(* Strings *)

\* the characters the model's strings are made of, in code-point order
Alphabet == " +-.0123456789ABGJNPQ_abcdefghijklmnopqrstuvwxyz"

CharCode(c) == CHOOSE i \in 1..Len(Alphabet) : SubSeq(Alphabet, i, i) = c

CharAt(s, i) == SubSeq(s, i, i)

\* str.startswith
StartsWith(s, prefix) ==
    Len(s) >= Len(prefix) /\ SubSeq(s, 1, Len(prefix)) = prefix

\* str.endswith
EndsWith(s, suffix) ==
    Len(s) >= Len(suffix) /\ SubSeq(s, Len(s) - Len(suffix) + 1, Len(s)) = suffix

\* str.lower on one character
LowerChar(c) ==
    CASE c = "A" -> "a" [] c = "B" -> "b" [] c = "G" -> "g" [] c = "J" -> "j"
      [] c = "N" -> "n" [] c = "P" -> "p" [] c = "Q" -> "q" [] OTHER -> c

RECURSIVE LowerFrom(_, _)
LowerFrom(s, i) ==
    IF i > Len(s) THEN "" ELSE LowerChar(CharAt(s, i)) \o LowerFrom(s, i + 1)

\* str.lower
Lower(s) == LowerFrom(s, 1)

RECURSIVE ReplaceFrom(_, _, _, _)
ReplaceFrom(s, old, new, i) ==
    IF i > Len(s) THEN ""
    ELSE (IF CharAt(s, i) = old THEN new ELSE CharAt(s, i))
         \o ReplaceFrom(s, old, new, i + 1)

\* str.replace(old, new) for a one-character old
Replace(s, old, new) == ReplaceFrom(s, old, new, 1)

\* s < t in Python's string order: at the first position where they differ
\* the code point of s is the smaller, or s is a proper prefix of t
StrLess(s, t) ==
    LET differ == {i \in 1..Len(s) : i > Len(t) \/ CharAt(s, i) # CharAt(t, i)}
        first == CHOOSE i \in differ : \A j \in differ : i <= j
    IN  IF differ = {} THEN Len(s) < Len(t)
        ELSE first <= Len(t) /\ CharCode(CharAt(s, first)) < CharCode(CharAt(t, first))

\* sorted(S) for a collection of distinct strings
Sorted(S) ==
    [i \in 1..Cardinality(S) |->
        CHOOSE x \in S : Cardinality({y \in S : StrLess(y, x)}) = i - 1]

\* the last position of character c in s, 0 when there is none
LastIndexOf(s, c) ==
    LET hits == {i \in 1..Len(s) : CharAt(s, i) = c}
    IN  IF hits = {} THEN 0 ELSE CHOOSE i \in hits : \A j \in hits : j <= i

\* Path.suffix: the last dot and what follows it, "" without a dot (or with
\* only a leading or a trailing one)
Suffix(name) ==
    LET d == LastIndexOf(name, ".")
    IN  IF d <= 1 \/ d = Len(name) THEN "" ELSE SubSeq(name, d, Len(name))

\* format(n, "02d")
Fmt02(n) == IF n < 10 THEN "0" \o ToString(n) ELSE ToString(n)

----------------------------------------------------------------------------
(* The wall clock *)

\* datetime.now().strftime("%Y%m%d"): the calendar day of an instant
DateStamp(t) == "202611" \o Fmt02(1 + (t \div TicksPerDay))

\* datetime.now().strftime("%Y%m%d-%H%M%S"): one stamp per instant
TimeStamp(t) == DateStamp(t) \o "-0000" \o Fmt02(t % TicksPerDay)

----------------------------------------------------------------------------
(* Program constants *)

IMAGE_EXTENSIONS == {".png", ".jpg", ".jpeg", ".webp", ".gif", ".bmp"}

API_DELAY_SECONDS == 2

\* Python's None, and a value that is present
None == << >>
Some(x) == << x >>

\* the truth value Python gives an optional string: None and "" are false
Truthy(v) == v # None /\ v[1] # ""

----------------------------------------------------------------------------
(* The filesystem *)

\* the names queue folders are created under
Names == <<"Ab c", "b_2">>

NameSet == {Names[i] : i \in 1..Len(Names)}

\* a directory entry: a regular file or a subdirectory
File(n) == [name |-> n, dir |-> FALSE]
Dir(n) == [name |-> n, dir |-> TRUE]

\* the i-th photograph of a folder
ImgName(i) ==
    "w" \o ToString(i) \o
    (CASE i % 4 = 1 -> ".png" [] i % 4 = 2 -> ".JPG" [] i % 4 = 3 -> ".jpeg"
       [] OTHER -> ".webp")

\* what a queue folder may hold: nothing at all, or n photographs beside a
\* text file and a subdirectory whose name ends like a photograph's
FolderContents ==
    {{}} \cup
    {{File(ImgName(i)) : i \in 1..n} \cup {File("notes.txt"), Dir("old.png")} :
        n \in 0..MaxImages}

\* a folder is an identity (never reused) and its entries; id 0 is no folder
NoFolder == [id |-> 0, entries |-> {}]

\* the folder now at queue/<name> (NoFolder when there is none)
VARIABLE queueRoot, queue
\* the processed root: whether it exists, and the folders in it, each under
\* its destination name
VARIABLE processedRoot, processed
\* the enhanced-output tree: the output directories and the files in them
VARIABLE enhancedDirs, enhanced
\* the wall clock
VARIABLE clock
\* the filesystem as it was when the model started
VARIABLE fs0

fsVars == << queueRoot, queue, processedRoot, processed, enhancedDirs, enhanced >>

\* QUEUE_DIR.iterdir() filtered by is_dir, sorted
get_queue_folders_list == Sorted({n \in NameSet : queue[n].id # 0})

\* the photographs of a folder's entries, sorted by name
get_images_in_folder(entries) ==
    Sorted({e.name : e \in {x \in entries :
                ~x.dir /\ Lower(Suffix(x.name)) \in IMAGE_EXTENSIONS}})

\* folder_name.replace(" ", "-").replace("_", "-").lower() from position i on;
\* the three steps map one character at a time, so they are applied to each
\* character in turn
RECURSIVE CleanName(_, _)
CleanName(folder_name, i) ==
    IF i > Len(folder_name) THEN ""
    ELSE Lower(Replace(Replace(CharAt(folder_name, i), " ", "-"), "_", "-"))
         \o CleanName(folder_name, i + 1)

\* an output file name stamped with the date and the time of day
generate_descriptive_name_timed(folder_name, index, total, t) ==
    LET timestamp == TimeStamp(t)
        clean_name == CleanName(folder_name, 1)
    IN  IF total = 1
        THEN clean_name \o "-enhanced-" \o timestamp \o ".png"
        ELSE clean_name \o "-" \o Fmt02(index) \o "-enhanced-" \o timestamp \o ".png"

\* the output file name of the index-th of total images, on the day of instant t
generate_descriptive_name(folder_name, index, total, t) ==
    LET timestamp == DateStamp(t)
        clean_name == CleanName(folder_name, 1)
    IN  IF total = 1
        THEN clean_name \o "-enhanced-" \o timestamp \o ".png"
        ELSE clean_name \o "-" \o Fmt02(index) \o "-enhanced-" \o timestamp \o ".png"

----------------------------------------------------------------------------
(* Provider responses and their normalization *)

\* longest sequence a provider response iterates over
MaxItems == 2

\* one item of an iterable response: whether it has a url attribute (and its
\* value), whether it is a str (and its text)
Item(hasUrl, url, isStr, text) ==
    [hasUrl |-> hasUrl, url |-> url, isStr |-> isStr, text |-> text]

UrlItem(u) == Item(TRUE, u, FALSE, "")
StrItem(t) == Item(FALSE, "", TRUE, t)
OtherItem == Item(FALSE, "", FALSE, "")

ItemVals ==
    {UrlItem(u) : u \in {"https://h/i1.png", "https://h/i2.png"}}
    \cup {StrItem(t) : t \in {"https://h/s.png", "log"}}
    \cup {OtherItem}

\* the items a str yields when iterated: its characters
CharItems(t) == [i \in 1..Len(t) |-> StrItem(CharAt(t, i))]

ItemSeqs == UNION {[1..n -> ItemVals] : n \in 0..MaxItems}

\* what replicate.run may return.  The probes the code makes are kept apart:
\* isNone (output is None), hasUrl/url (hasattr(output, 'url')), isStr
\* (isinstance(output, str)), isIter/items (hasattr(output, '__iter__') and
\* what iteration yields), text (str(output))
NoneResponse ==
    [isNone |-> TRUE, hasUrl |-> FALSE, url |-> "", isStr |-> FALSE,
     isIter |-> FALSE, items |-> << >>, text |-> "None"]

\* an object that is no str: whether it has a url attribute, its str(), and
\* the items it iterates over (None: it is not iterable)
ObjectResponse(hasUrl, text, items) ==
    [isNone |-> FALSE, hasUrl |-> hasUrl,
     url |-> (IF hasUrl THEN "https://h/o.png" ELSE ""),
     isStr |-> FALSE, isIter |-> items # None,
     items |-> (IF items # None THEN items[1] ELSE << >>), text |-> text]

\* a str, or an instance of a subclass of str that has a url attribute
StringResponse(hasUrl, text) ==
    [isNone |-> FALSE, hasUrl |-> hasUrl,
     url |-> (IF hasUrl THEN "https://h/o.png" ELSE ""),
     isStr |-> TRUE, isIter |-> TRUE, items |-> CharItems(text), text |-> text]

ObjectResponses ==
    {ObjectResponse(h, t, it) :
        h \in BOOLEAN, t \in {"https://h/t.png", "<object>"},
        it \in {None} \cup {Some(q) : q \in ItemSeqs}}

StringResponses ==
    {StringResponse(h, t) : h \in BOOLEAN, t \in {"https://h/s.png", "log", "htt"}}

Responses == {NoneResponse} \cup ObjectResponses \cup StringResponses

BeginsHttp(t) == StartsWith(t, "http")

\* whether the loop of get_output_url returns at this item
ItemMatches(item) == item.hasUrl \/ (item.isStr /\ BeginsHttp(item.text))

ItemLocation(item) == IF item.hasUrl THEN item.url ELSE item.text

\* get_output_url that keeps scanning and returns the last matching item
get_output_url_last_item(output) ==
    IF output.isNone THEN None
    ELSE IF output.hasUrl THEN Some(output.url)
    ELSE IF output.isStr /\ BeginsHttp(output.text) THEN Some(output.text)
    ELSE LET hits == IF output.isIter
                     THEN {i \in 1..Len(output.items) : ItemMatches(output.items[i])}
                     ELSE {}
         IN  IF hits # {}
             THEN Some(ItemLocation(output.items[CHOOSE i \in hits : \A j \in hits : i >= j]))
             ELSE IF BeginsHttp(output.text) THEN Some(output.text)
             ELSE None

\* process_whiteboard.get_output_url
get_output_url(output) ==
    IF output.isNone THEN None
    ELSE IF output.hasUrl THEN Some(output.url)
    ELSE IF output.isStr /\ BeginsHttp(output.text) THEN Some(output.text)
    ELSE LET hits == IF output.isIter
                     THEN {i \in 1..Len(output.items) : ItemMatches(output.items[i])}
                     ELSE {}
         IN  IF hits # {}
             THEN Some(ItemLocation(output.items[CHOOSE i \in hits : \A j \in hits : i <= j]))
             ELSE IF BeginsHttp(output.text) THEN Some(output.text)
             ELSE None

----------------------------------------------------------------------------
(* process_image *)

\* what the environment does to one image's processing: whether the file can
\* be read and encoded, whether the remote call returns (and what), whether
\* the download succeeds, and how far the write gets ("open": mkdir or open
\* raises, nothing is written; "write": the file is opened, which creates or
\* truncates it, and writing it raises; "ok")
ImageEnv(encode, call, output, download, write) ==
    [encode |-> encode, call |-> call, output |-> output, download |-> download,
     write |-> write]

\* the responses the production run is driven with: a FileOutput, a URL
\* string, a list holding a URL after a non-URL string, and two without a
\* location
SampleResponses ==
    { ObjectResponse(TRUE, "<object>", None),
      StringResponse(FALSE, "https://h/s.png"),
      ObjectResponse(FALSE, "<object>",
                     Some(<< StrItem("log"), UrlItem("https://h/i1.png") >>)),
      ObjectResponse(FALSE, "<object>", None),
      NoneResponse }

\* one environment for each way an image's processing can go
ImageEnvs ==
    {ImageEnv(FALSE, FALSE, NoneResponse, FALSE, "open"),
     ImageEnv(TRUE, FALSE, NoneResponse, FALSE, "open")}
    \cup {ImageEnv(TRUE, TRUE, r, FALSE, "open") : r \in SampleResponses}
    \cup {ImageEnv(TRUE, TRUE, r, TRUE, w) :
            r \in {x \in SampleResponses : Truthy(get_output_url(x))},
            w \in {"open", "write", "ok"}}

\* process_image: what it returns and what it leaves at output_path ("none":
\* the path is untouched; "partial": created or truncated, not fully written;
\* "complete"), and whether an exception leaves it (raises).  Every exception
\* of a step is caught and turned into False.
Result(ret, file) == [ret |-> ret, file |-> file, raises |-> FALSE]

\* process_image without its try/except: the exception of a failing step
\* leaves the function
process_image_uncaught(env) ==
    IF ~env.encode \/ ~env.call THEN [ret |-> FALSE, file |-> "none", raises |-> TRUE]
    ELSE IF Truthy(get_output_url(env.output))
         THEN IF ~env.download \/ env.write = "open"
              THEN [ret |-> FALSE, file |-> "none", raises |-> TRUE]
              ELSE IF env.write = "write"
                   THEN [ret |-> FALSE, file |-> "partial", raises |-> TRUE]
                   ELSE Result(TRUE, "complete")
         ELSE Result(FALSE, "none")

process_image(env) ==
    IF ~env.encode THEN Result(FALSE, "none")
    ELSE IF ~env.call THEN Result(FALSE, "none")
    ELSE IF Truthy(get_output_url(env.output))
         THEN IF ~env.download THEN Result(FALSE, "none")
              ELSE IF env.write = "open" THEN Result(FALSE, "none")
              ELSE IF env.write = "write" THEN Result(FALSE, "partial")
              ELSE Result(TRUE, "complete")
         ELSE Result(FALSE, "none")

\* the enhanced tree after process_image acted on dir/name
WriteOutput(tree, dir, name, file) ==
    IF file = "none" THEN tree
    ELSE {f \in tree : ~(f.dir = dir /\ f.name = name)}
         \cup {[dir |-> dir, name |-> name, content |-> file]}

----------------------------------------------------------------------------
(* Terminal input *)

IsDigit(c) == c \in {"0", "1", "2", "3", "4", "5", "6", "7", "8", "9"}

DigitVal(c) == CharCode(c) - CharCode("0")

\* str.strip
Strip(s) ==
    LET inked == {i \in 1..Len(s) : CharAt(s, i) # " "}
    IN  IF inked = {} THEN ""
        ELSE SubSeq(s, CHOOSE i \in inked : \A j \in inked : i <= j,
                       CHOOSE i \in inked : \A j \in inked : j <= i)

RECURSIVE DigitsValue(_, _)
\* the number the first n characters of s are the decimal digits of
DigitsValue(s, n) ==
    IF n = 0 THEN 0 ELSE 10 * DigitsValue(s, n - 1) + DigitVal(CharAt(s, n))

\* int(s): Some(n), or None where Python raises ValueError
ParseInt(s) ==
    LET t == Strip(s)
        signed == Len(t) > 0 /\ CharAt(t, 1) \in {"+", "-"}
        body == IF signed THEN SubSeq(t, 2, Len(t)) ELSE t
    IN  IF Len(body) = 0 \/ \E i \in 1..Len(body) : ~IsDigit(CharAt(body, i))
        THEN None
        ELSE Some(IF signed /\ CharAt(t, 1) = "-"
                  THEN 0 - DigitsValue(body, Len(body))
                  ELSE DigitsValue(body, Len(body)))

\* Prompt.ask(..., default=d) on a typed line: the default for an empty line,
\* else the line stripped
PromptAsk(typed, default) == IF typed = "" THEN default ELSE Strip(typed)

\* the lines a user types at the folder menu
MenuInputs ==
    {"", "q", "Q", "qq", "x", "0", "1", "2", "3", "-1", "+2", "02", "1.5", "2 ", "2q"}

\* the lines a y/n prompt accepts (Prompt.ask(choices=["y", "n"]) asks again
\* by itself on anything else)
YesNoInputs == {"", "y", "n"}

\* a menu that takes the number typed for the list index
menu_choice_no_offset(folders, choice) ==
    IF Lower(choice) = "q" THEN [kind |-> "quit", folder |-> None]
    ELSE LET n == ParseInt(choice)
         IN  IF n = None THEN [kind |-> "not_a_number", folder |-> None]
             ELSE LET idx == n[1]
                  IN  IF 0 <= idx /\ idx < Len(folders)
                      THEN [kind |-> "select", folder |-> Some(folders[idx + 1])]
                      ELSE [kind |-> "invalid", folder |-> None]

\* one turn of display_folder_menu's loop on the answer `choice`: "quit"
\* (return None), "select" (return folders[idx]), or, after a message, ask again
menu_choice(folders, choice) ==
    IF Lower(choice) = "q" THEN [kind |-> "quit", folder |-> None]
    ELSE LET n == ParseInt(choice)
         IN  IF n = None THEN [kind |-> "not_a_number", folder |-> None]
             ELSE LET idx == n[1] - 1
                  IN  IF 0 <= idx /\ idx < Len(folders)
                      THEN [kind |-> "select", folder |-> Some(folders[idx + 1])]
                      ELSE [kind |-> "invalid", folder |-> None]

----------------------------------------------------------------------------
(* The end of main *)

\* a delay test that is off by one: no delay before the last image
delay_after_short(i, total) == i < total - 1

\* process_folder, line 350: whether a delay follows the i-th of total images
delay_after(i, total) == i < total

\* a summary that takes any success for a full one
summary_kind_any_success(success, total) ==
    IF success > 0 THEN "complete" ELSE "failed"

\* a summary that forgets the empty folder
summary_kind_no_total(success, total) ==
    IF success = total THEN "complete"
    ELSE IF success > 0 THEN "partial"
    ELSE "failed"

\* which summary panel main prints for process_folder's (success, total)
summary_kind(success, total) ==
    IF success = total /\ total > 0 THEN "complete"
    ELSE IF success > 0 THEN "partial"
    ELSE "failed"

\* move_to_processed's destination for a folder named `name` at instant t
move_destination(name, t) ==
    IF \E e \in processed : e.dest = name
    THEN name \o "-" \o TimeStamp(t)
    ELSE name

----------------------------------------------------------------------------
(* Invocations of the production CLI *)

Procs == {1, 2}

\* per invocation: where main is (pc), its inputs (listModels: --list-models;
\* apiKey: REPLICATE_API_KEY is set), its locals (folders, selected, images,
\* total, success, idx, dest), what it returned or printed (ret, summary,
\* exit: the process's exit status, -1 while it runs) and a record of what it
\* did (selId: the identity of the folder selected; listed, prompts, calls,
\* offered, moveAnswer, lastChoice, lastKind, trace, outs, movedTo; overlap:
\* it processed an image while another invocation was in process_folder's
\* loop on the same folder)
VARIABLE proc
\* one application of get_output_url: where it is (pc), the response it is
\* given (output) and what it returned (result)
VARIABLE norm
\* one run of the evaluation script: where its main is (pc), its inputs
\* (apiKey; entries: the source directory; unreadable: the entries that cannot
\* be read), its locals (source_images, img, model, run_dir, results), the
\* files of the run directory (files, log), its exit status (exit, -1 while
\* it runs) and, pair by pair, whether the remote call returned a response
\* holding a location (located)
VARIABLE eval
\* process_folder invoked again and again on one folder: the invocations
\* that have returned (runs), whether each of them succeeded for every image
\* (full), the instant the first began (clock0) and the file names the
\* output directory held when the first returned (names1)
VARIABLE rerun

vars == << queueRoot, queue, processedRoot, processed, enhancedDirs, enhanced,
           clock, fs0, proc, norm, eval, rerun >>

\* get_output_url is not being applied
NormIdle == [pc |-> "idle", output |-> NoneResponse, result |-> None]

\* the evaluation script is not running
EvalIdle ==
    [pc |-> "off", apiKey |-> FALSE, entries |-> {}, unreadable |-> {},
     source_images |-> << >>, img |-> 0, model |-> 0, run_dir |-> None,
     results |-> << >>, located |-> << >>, files |-> {}, log |-> None, exit |-> -1]

\* process_folder is not being re-invoked
RerunIdle == [runs |-> 0, full |-> TRUE, clock0 |-> 0, names1 |-> {}]

\* what every step of the production CLI leaves alone
fixed == << fs0, norm, eval, rerun >>

NewProc(pc, listModels, apiKey) ==
    [pc |-> pc, listModels |-> listModels, apiKey |-> apiKey,
     folders |-> << >>, selected |-> None, selId |-> 0, images |-> << >>,
     total |-> 0, success |-> 0, idx |-> 0, dest |-> "", ret |-> None,
     summary |-> "none", exit |-> -1, listed |-> FALSE, prompts |-> 0,
     calls |-> 0, offered |-> FALSE, moveAnswer |-> None, lastChoice |-> None, lastKind |-> "none",
     trace |-> << >>, outs |-> << >>, movedTo |-> None, overlap |-> FALSE]

\* the invocation p after a step that sets the fields of `changes`
Set(p, changes) == [proc EXCEPT ![p] = changes @@ proc[p]]

\* main returns (exit status 0), calls sys.exit(1), or dies of an uncaught
\* exception (exit status 1)
Returned == [pc |-> "done", exit |-> 0]
Exited == [pc |-> "exit", exit |-> 1]
Crashed == [pc |-> "crashed", exit |-> 1]

\* the folder at queue/<selected>
SelectedFolder(p) == queue[proc[p].selected[1]]

\* main, lines 391-406: parse_args, --list-models, the banner
Start(p) ==
    /\ proc[p].pc = "start"
    /\ proc' = IF proc[p].listModels THEN Set(p, Returned)
               ELSE Set(p, [pc |-> "check_api_key"])
    /\ UNCHANGED << fsVars, clock, fixed >>

\* a credential check that reports the missing key and goes on
CheckApiKey_no_exit(p) ==
    /\ proc[p].pc = "check_api_key"
    /\ proc' = Set(p, [pc |-> "get_queue_folders"])
    /\ UNCHANGED << fsVars, clock, fixed >>

\* check_api_key
CheckApiKey(p) ==
    /\ proc[p].pc = "check_api_key"
    /\ proc' = IF ~proc[p].apiKey THEN Set(p, Exited)
               ELSE Set(p, [pc |-> "get_queue_folders"])
    /\ UNCHANGED << fsVars, clock, fixed >>

\* get_queue_folders
GetQueueFolders(p) ==
    /\ proc[p].pc = "get_queue_folders"
    /\ proc' = IF ~queueRoot THEN Set(p, Exited)
               ELSE Set(p, [pc |-> "menu", folders |-> get_queue_folders_list,
                            listed |-> TRUE])
    /\ UNCHANGED << fsVars, clock, fixed >>

\* display_folder_menu up to its loop: no folders, or the table (which lists
\* the images of every folder)
MenuShow(p) ==
    /\ proc[p].pc = "menu"
    /\ proc' = IF proc[p].folders = << >> THEN Set(p, Returned)
               ELSE IF \E i \in 1..Len(proc[p].folders) : queue[proc[p].folders[i]].id = 0
                    THEN Set(p, Crashed)
                    ELSE Set(p, [pc |-> "menu_prompt"])
    /\ UNCHANGED << fsVars, clock, fixed >>

\* a menu that takes a lock: it does not hand out a folder another
\* invocation has selected
MenuPrompt_locked(p, typed) ==
    /\ proc[p].pc = "menu_prompt"
    /\ LET choice == PromptAsk(typed, "1")
           r == menu_choice(proc[p].folders, choice)
           asked == [prompts |-> proc[p].prompts + 1, lastChoice |-> Some(choice),
                     lastKind |-> r.kind]
       IN  /\ r.kind \in {"quit", "select"} \/ proc[p].prompts < MaxPrompts
           /\ r.kind = "select" => \A q \in Procs \ {p} : proc[q].selected # r.folder
           /\ proc' = IF r.kind = "quit" THEN Set(p, asked @@ Returned)
                      ELSE IF r.kind = "select"
                           THEN Set(p, asked @@ [pc |-> "confirm", selected |-> r.folder,
                                                 selId |-> queue[r.folder[1]].id])
                           ELSE Set(p, asked)
    /\ UNCHANGED << fsVars, clock, fixed >>

\* one turn of display_folder_menu's loop on a typed line, and main's return
\* when it yields None
MenuPrompt(p, typed) ==
    /\ proc[p].pc = "menu_prompt"
    /\ LET choice == PromptAsk(typed, "1")
           r == menu_choice(proc[p].folders, choice)
           asked == [prompts |-> proc[p].prompts + 1, lastChoice |-> Some(choice),
                     lastKind |-> r.kind]
       IN  /\ r.kind \in {"quit", "select"} \/ proc[p].prompts < MaxPrompts
           /\ proc' = IF r.kind = "quit" THEN Set(p, asked @@ Returned)
                      ELSE IF r.kind = "select"
                           THEN Set(p, asked @@ [pc |-> "confirm", selected |-> r.folder,
                                                 selId |-> queue[r.folder[1]].id])
                           ELSE Set(p, asked)
    /\ UNCHANGED << fsVars, clock, fixed >>

\* main, lines 421-434: list the selected folder's images, ask whether to proceed
Confirm(p, typed) ==
    /\ proc[p].pc = "confirm"
    /\ proc' = IF SelectedFolder(p).id = 0 THEN Set(p, Crashed)
               ELSE IF PromptAsk(typed, "y") # "y"
                    THEN Set(p, [prompts |-> proc[p].prompts + 1] @@ Returned)
                    ELSE Set(p, [prompts |-> proc[p].prompts + 1, pc |-> "process_folder"])
    /\ UNCHANGED << fsVars, clock, fixed >>

\* process_folder up to its loop: list the images; none: return (0, 0); else
\* create the output directory
ProcessFolderStart(p) ==
    /\ proc[p].pc = "process_folder"
    /\ LET images == get_images_in_folder(SelectedFolder(p).entries)
       IN  IF SelectedFolder(p).id = 0
           THEN /\ proc' = Set(p, Crashed)
                /\ UNCHANGED enhancedDirs
           ELSE IF images = << >>
                THEN /\ proc' = Set(p, [pc |-> "summary", ret |-> Some(<< 0, 0 >>)])
                     /\ UNCHANGED enhancedDirs
                ELSE /\ proc' = Set(p, [pc |-> "process_image", images |-> images,
                                        total |-> Len(images), success |-> 0, idx |-> 1])
                     /\ enhancedDirs' = enhancedDirs \cup {proc[p].selected[1]}
    /\ UNCHANGED << queueRoot, queue, processedRoot, processed, enhanced, clock, fixed >>

\* the end of one pass of process_folder's loop for an invocation with the
\* fields `now`: the next image, or return (success_count, total)
LoopNext(now) ==
    IF now.idx < now.total
    THEN [pc |-> "process_image", idx |-> now.idx + 1]
    ELSE [pc |-> "summary", ret |-> Some(<< now.success, now.total >>)]

\* one pass of process_folder's loop up to the delay: name the output,
\* process_image, count
ProcessImage(p, env) ==
    /\ proc[p].pc = "process_image"
    /\ env.encode => SelectedFolder(p).id = proc[p].selId
    /\ LET i == proc[p].idx
           total == proc[p].total
           dir == proc[p].selected[1]
           output_name == generate_descriptive_name(dir, i, total, clock)
           r == process_image(env)
           done == [success |-> proc[p].success + (IF r.ret THEN 1 ELSE 0),
                    calls |-> proc[p].calls + (IF env.encode THEN 1 ELSE 0),
                    trace |-> Append(proc[p].trace, << "call", i >>),
                    overlap |-> \/ proc[p].overlap
                                \/ \E q \in Procs \ {p} :
                                       /\ proc[q].selId = proc[p].selId
                                       /\ proc[q].pc \in {"process_image", "sleep"},
                    outs |-> Append(proc[p].outs,
                                    [image |-> proc[p].images[i], name |-> output_name,
                                     ret |-> r.ret, file |-> r.file])]
       IN  /\ enhanced' = WriteOutput(enhanced, dir, output_name, r.file)
           /\ enhancedDirs' = IF r.file = "none" THEN enhancedDirs
                              ELSE enhancedDirs \cup {dir}
           /\ proc' = IF r.raises THEN Set(p, done @@ Crashed)
                      ELSE IF delay_after(i, total) THEN Set(p, done @@ [pc |-> "sleep"])
                      ELSE Set(p, done @@ LoopNext(done @@ proc[p]))
    /\ UNCHANGED << queueRoot, queue, processedRoot, processed, clock, fixed >>

\* time.sleep(API_DELAY_SECONDS), and the end of the pass
Sleep(p) ==
    /\ proc[p].pc = "sleep"
    /\ proc' = Set(p, [trace |-> Append(proc[p].trace, << "sleep", API_DELAY_SECONDS >>)]
                      @@ LoopNext(proc[p]))
    /\ UNCHANGED << fsVars, clock, fixed >>

\* main, lines 439-472: the summary panel
Summary(p) ==
    /\ proc[p].pc = "summary"
    /\ LET kind == summary_kind(proc[p].ret[1][1], proc[p].ret[1][2])
       IN  proc' = IF kind = "complete"
                   THEN Set(p, [pc |-> "move_prompt", summary |-> kind])
                   ELSE Set(p, [summary |-> kind] @@ Returned)
    /\ UNCHANGED << fsVars, clock, fixed >>

\* main, lines 450-456: offer to move the folder
MovePrompt(p, typed) ==
    /\ proc[p].pc = "move_prompt"
    /\ LET asked == [offered |-> TRUE, prompts |-> proc[p].prompts + 1,
                     moveAnswer |-> Some(PromptAsk(typed, "y"))]
       IN  proc' = IF PromptAsk(typed, "y") = "y"
                   THEN Set(p, asked @@ [pc |-> "move_to_processed"])
                   ELSE Set(p, asked @@ Returned)
    /\ UNCHANGED << fsVars, clock, fixed >>

\* move_to_processed, lines 256-262: create the processed root, choose the
\* destination
MoveChoose(p) ==
    /\ proc[p].pc = "move_to_processed"
    /\ processedRoot' = TRUE
    /\ proc' = Set(p, [pc |-> "rename",
                       dest |-> move_destination(proc[p].selected[1], clock)])
    /\ UNCHANGED << queueRoot, queue, processed, enhancedDirs, enhanced, clock, fixed >>

\* folder.rename(destination): os.rename raises when the folder is gone and
\* when the destination is a directory that is not empty, and replaces a
\* destination that is an empty directory.  `after`: what the caller does next.
MoveRename(p, after) ==
    /\ proc[p].pc = "rename"
    /\ LET name == proc[p].selected[1]
           occupants == {e \in processed : e.dest = proc[p].dest}
       IN  IF queue[name].id = 0 \/ \E e \in occupants : e.folder.entries # {}
           THEN /\ proc' = Set(p, Crashed)
                /\ UNCHANGED << queue, processed >>
           ELSE /\ processed' = (processed \ occupants)
                                \cup {[dest |-> proc[p].dest, folder |-> queue[name]]}
                /\ queue' = [queue EXCEPT ![name] = NoFolder]
                /\ proc' = Set(p, [movedTo |-> Some(proc[p].dest)] @@ after)
    /\ UNCHANGED << queueRoot, processedRoot, enhancedDirs, enhanced, clock, fixed >>

\* time passes
Tick ==
    /\ clock < MaxClock
    /\ clock' = clock + 1
    /\ UNCHANGED << fsVars, proc, fixed >>

----------------------------------------------------------------------------
(* One run of the production CLI *)

\* a folder of the model: identity i, n photographs
Folder(i, entries) == [id |-> i, entries |-> entries]

\* the queues a run starts from: the first name missing or holding any
\* contents, the second missing or holding one photograph
QueueConfigs ==
    {[n \in NameSet |-> IF n = Names[1] THEN a ELSE b] :
        a \in {NoFolder} \cup {Folder(1, c) : c \in FolderContents},
        b \in {NoFolder, Folder(2, {File(ImgName(1))})}}

\* the processed roots a run starts from: missing, or holding a folder moved
\* there earlier under the first name
ProcessedConfigs == {{}, {[dest |-> Names[1], folder |-> Folder(9, {File(ImgName(1))})]}}

Init ==
    /\ queueRoot \in BOOLEAN
    /\ queue \in QueueConfigs
    /\ ~queueRoot => \A n \in NameSet : queue[n] = NoFolder
    /\ processed \in ProcessedConfigs
    /\ processedRoot = (processed # {})
    /\ enhancedDirs = {}
    /\ enhanced = {}
    /\ clock = 0
    /\ fs0 = fsVars
    /\ \E lm \in BOOLEAN, key \in BOOLEAN :
          proc = [p \in Procs |-> IF p = 1 THEN NewProc("start", lm, key)
                                  ELSE NewProc("off", FALSE, FALSE)]
    /\ norm = NormIdle
    /\ eval = EvalIdle
    /\ rerun = RerunIdle

Next ==
    \/ Tick
    \/ Start(1)
    \/ CheckApiKey(1)
    \/ GetQueueFolders(1)
    \/ MenuShow(1)
    \/ \E typed \in MenuInputs : MenuPrompt(1, typed)
    \/ \E typed \in YesNoInputs : Confirm(1, typed)
    \/ ProcessFolderStart(1)
    \/ \E env \in ImageEnvs : ProcessImage(1, env)
    \/ Sleep(1)
    \/ Summary(1)
    \/ \E typed \in YesNoInputs : MovePrompt(1, typed)
    \/ MoveChoose(1)
    \/ MoveRename(1, Returned)

Spec == Init /\ [][Next]_vars

----------------------------------------------------------------------------
(* Properties of a production run *)

\* the folder the invocation selected is now under the processed root
Relocated(p) ==
    proc[p].selId # 0 /\ \E e \in processed : e.folder.id = proc[p].selId

\* the folder the invocation selected is still where it was in the queue
InQueue(p) ==
    proc[p].selected # None /\ queue[proc[p].selected[1]].id = proc[p].selId

\* the folder with identity i, wherever it is
FolderById(i) ==
    IF \E n \in NameSet : queue[n].id = i
    THEN queue[CHOOSE n \in NameSet : queue[n].id = i]
    ELSE (CHOOSE e \in processed : e.folder.id = i).folder

\* the invocation is over
Ended(p) == proc[p].exit # -1

\* C1: the selected folder is under the processed root only if process_folder
\* attempted every image of the folder in this run and every one succeeded;
\* once process_folder has returned anything but a full success the folder
\* is still in the queue.  An invariant: it holds wherever the run is cut.
C1_MovedOnlyAfterFullSuccess ==
    LET P == proc[1]
    IN  /\ Relocated(1) =>
              /\ P.ret = Some(<< P.total, P.total >>)
              /\ P.total > 0
              /\ [k \in 1..Len(P.outs) |-> P.outs[k].image]
                     = get_images_in_folder(FolderById(P.selId).entries)
              /\ \A k \in 1..Len(P.outs) : P.outs[k].ret
        /\ (P.ret # None /\ ~(P.ret[1][1] = P.ret[1][2] /\ P.ret[1][2] > 0)) => InQueue(1)

C1_Witness == Relocated(1) /\ proc[1].total >= 2

C2_AttemptsInOrder ==
    LET P == proc[1]
        calls == SelectSeq(P.trace, LAMBDA ev : ev[1] = "call")
    IN  /\ Len(P.outs) <= P.total
        /\ \A k \in 1..Len(P.outs) : P.outs[k].image = P.images[k]
        /\ calls = [k \in 1..Len(P.outs) |-> << "call", k >>]
        /\ (P.ret # None /\ P.total > 0) => Len(P.outs) = P.total
        /\ P.pc \in {"process_image", "sleep"} => P.ret = None
        /\ P.pc # "crashed"

\* the steps process_folder's loop still has to take
C2_StepsLeft(P) ==
    IF P.pc = "process_image" THEN 2 * (P.total - P.idx) + 2
    ELSE IF P.pc = "sleep" THEN 2 * (P.total - P.idx) + 1
    ELSE 0

\* in its loop process_folder can always take its next step
C2_LoopGoesOn ==
    /\ proc[1].pc = "process_image" => ENABLED (\E env \in ImageEnvs : ProcessImage(1, env))
    /\ proc[1].pc = "sleep" => ENABLED Sleep(1)

\* a step of the loop stays in the loop or returns, with fewer steps left
C2_LoopStep ==
    (proc[1].pc \in {"process_image", "sleep"} /\ proc'[1] # proc[1]) =>
        /\ C2_StepsLeft(proc'[1]) < C2_StepsLeft(proc[1])
        /\ proc'[1].pc \in {"process_image", "sleep"} \/ proc'[1].ret # None

\* C2: whatever the outcome of each image, process_folder attempts the
\* images of the listing once each, in order, no failure leaves it as an
\* exception, and its loop reaches its return: in the loop the next step can
\* always be taken, and each step leaves fewer steps to take.
C2_EveryImageAttempted ==
    /\ []C2_AttemptsInOrder
    /\ []C2_LoopGoesOn
    /\ [][C2_LoopStep]_vars

C2_Witness ==
    /\ proc[1].ret # None
    /\ proc[1].total >= 2
    /\ ~proc[1].outs[1].ret
    /\ proc[1].outs[2].ret

\* the files now in the selected folder's output directory
OutputFiles(p) == {f \in enhanced : f.dir = proc[p].selected[1]}

\* C3: when process_folder returns, its result is (s, n) for the n eligible
\* images of the folder and the s images that succeeded, and the output
\* directory, empty at the start, holds exactly s files: the outputs of the
\* successful images and nothing for a failed one.
C3_TallyAndFiles ==
    LET P == proc[1]
        won == {k \in 1..Len(P.outs) : P.outs[k].ret}
    IN  P.ret # None =>
            /\ P.ret = Some(<< Cardinality(won),
                               Len(get_images_in_folder(FolderById(P.selId).entries)) >>)
            /\ Cardinality(OutputFiles(1)) = Cardinality(won)
            /\ {f.name : f \in OutputFiles(1)} = {P.outs[k].name : k \in won}

\* C6: the summary is the one the tally determines, the move is offered after
\* "complete" and after no other summary, and the folder is moved only on
\* the answer yes.
C6_SummaryByTally ==
    LET P == proc[1]
        s == P.ret[1][1]
        t == P.ret[1][2]
    IN  /\ P.summary # "none" =>
              /\ P.ret # None
              /\ (P.summary = "complete") <=> (s = t /\ t > 0)
              /\ (P.summary = "partial") <=> (0 < s /\ s < t)
              /\ (P.summary = "failed") <=> ~(s = t /\ t > 0) /\ ~(0 < s /\ s < t)
        /\ (Ended(1) /\ P.ret # None) => P.summary # "none"
        /\ P.offered => P.summary = "complete"
        /\ (P.summary = "complete" /\ P.pc # "move_prompt") => P.offered
        /\ Relocated(1) => P.offered /\ P.moveAnswer = Some("y")
        /\ P.moveAnswer = Some("n") => InQueue(1)

C6_Witness ==
    /\ proc[1].summary = "complete"
    /\ proc[1].moveAnswer = Some("n")
    /\ proc[1].pc = "done"

\* C7: process_folder's calls and delays alternate, starting and ending with
\* a call: a delay of API_DELAY_SECONDS after the call of image i and before
\* the call of image i + 1, n - 1 delays for n images, none after the last.
C7_DelaysBetweenCalls ==
    LET P == proc[1]
        tr == P.trace
    IN  /\ \A k \in 1..Len(tr) :
              tr[k] = IF k % 2 = 1 THEN << "call", (k + 1) \div 2 >>
                      ELSE << "sleep", API_DELAY_SECONDS >>
        /\ (P.ret # None /\ P.total >= 1) =>
              /\ Cardinality({k \in 1..Len(tr) : tr[k][1] = "call"}) = P.total
              /\ Cardinality({k \in 1..Len(tr) : tr[k][1] = "sleep"}) = P.total - 1
              /\ tr[Len(tr)][1] = "call"

C7_Witness == proc[1].ret # None /\ proc[1].total >= 2

\* the invocation has listed no queue folder, asked nothing, called nothing
\* and left the filesystem as it found it
NoWork(p) ==
    ~proc[p].listed /\ proc[p].prompts = 0 /\ proc[p].calls = 0 /\ fsVars = fs0

C9_MenuState ==
    LET P == proc[1]
    IN  /\ P.selected # None => \E k \in 1..Len(P.folders) : P.folders[k] = P.selected[1]
        /\ P.pc = "menu_prompt" => P.selected = None
        /\ P.lastKind \in {"invalid", "not_a_number"} => P.pc = "menu_prompt"

C9_MenuStep ==
    (proc[1].pc = "menu_prompt" /\ proc'[1] # proc[1]) =>
        LET P == proc[1]
            Q == proc'[1]
            c == Q.lastChoice[1]
            n == ParseInt(c)
            quit == c \in {"q", "Q"}
            valid == ~quit /\ n # None /\ n[1] \in 1..Len(P.folders)
        IN  /\ Q.prompts = P.prompts + 1
            /\ quit => Q.pc = "done" /\ Q.selected = None /\ Q.exit = 0
            /\ valid => Q.pc = "confirm" /\ Q.selected = Some(P.folders[n[1]])
            /\ (~quit /\ ~valid) =>
                  /\ Q.pc = "menu_prompt"
                  /\ Q.lastKind = IF n = None THEN "not_a_number" ELSE "invalid"
                  /\ [Q EXCEPT !.prompts = P.prompts, !.lastChoice = P.lastChoice,
                               !.lastKind = P.lastKind] = P
                  /\ fsVars' = fsVars

\* C9: at the folder menu an answer that is no number, or a number outside
\* 1..N, is reported and the menu asks again, nothing else changed; the menu
\* returns on q (no folder) or on a number k of 1..N (the k-th folder
\* listed), so a folder it returns is one of those listed.
C9_MenuNeverFails == []C9_MenuState /\ [][C9_MenuStep]_vars

C9_Witness ==
    /\ proc[1].pc = "menu_prompt"
    /\ proc[1].lastKind = "invalid"
    /\ proc[1].prompts = 2

----------------------------------------------------------------------------
(* get_output_url applied to one response *)

\* a filesystem with nothing in it, and no invocation of the production CLI
Quiet ==
    /\ queueRoot = FALSE
    /\ queue = [n \in NameSet |-> NoFolder]
    /\ processedRoot = FALSE
    /\ processed = {}
    /\ enhancedDirs = {}
    /\ enhanced = {}
    /\ clock = 0
    /\ fs0 = fsVars
    /\ proc = [p \in Procs |-> NewProc("off", FALSE, FALSE)]

NormInit ==
    /\ Quiet
    /\ norm \in {[pc |-> "call", output |-> o, result |-> None] : o \in Responses}
    /\ eval = EvalIdle
    /\ rerun = RerunIdle

NormReturn ==
    /\ norm.pc = "call"
    /\ norm' = [norm EXCEPT !.pc = "returned", !.result = get_output_url(norm.output)]
    /\ UNCHANGED << fsVars, clock, fs0, proc, eval, rerun >>

NormNext == NormReturn

NormSpec == NormInit /\ [][NormNext]_vars

\* C4: get_output_url returns (a) the url attribute of a response that has
\* one; else (b) the response itself when it is a str beginning "http"; else
\* (c) for an iterable, the url or the text of the first item, in iteration
\* order, that has a url attribute or is a str beginning "http"; else (d)
\* str(response) when that begins "http"; else (e) None.  So a list of
\* non-URL strings and one item with a url yields that url, and a non-URL
\* string or an object with none of these yields None.
C4_NormalizationPriority ==
    norm.pc = "returned" =>
        LET o == norm.output
            r == norm.result
            a == ~o.isNone /\ o.hasUrl
            b == ~o.isNone /\ o.isStr /\ StartsWith(o.text, "http")
            located(i) == \/ o.items[i].hasUrl
                          \/ o.items[i].isStr /\ StartsWith(o.items[i].text, "http")
            c == ~o.isNone /\ o.isIter /\ \E i \in 1..Len(o.items) : located(i)
            d == ~o.isNone /\ StartsWith(o.text, "http")
            urls == {i \in 1..Len(o.items) : o.items[i].hasUrl}
        IN  /\ a => r = Some(o.url)
            /\ (~a /\ b) => r = Some(o.text)
            /\ (~a /\ ~b /\ c) =>
                  \E i \in 1..Len(o.items) :
                      /\ located(i)
                      /\ \A j \in 1..(i - 1) : ~located(j)
                      /\ r = Some(IF o.items[i].hasUrl THEN o.items[i].url
                                  ELSE o.items[i].text)
            /\ (~a /\ ~b /\ ~c /\ d) => r = Some(o.text)
            /\ (~a /\ ~b /\ ~c /\ ~d) => r = None
            /\ ( /\ ~o.isNone /\ ~o.hasUrl /\ ~o.isStr /\ o.isIter
                 /\ Cardinality(urls) = 1
                 /\ \A i \in 1..Len(o.items) \ urls :
                        o.items[i].isStr /\ ~StartsWith(o.items[i].text, "http") )
               => \E i \in urls : r = Some(o.items[i].url)
            /\ (~o.isNone /\ ~o.hasUrl /\ o.isStr /\ ~StartsWith(o.text, "http")) => r = None
            /\ ( /\ ~o.isNone /\ ~o.hasUrl /\ ~o.isStr /\ ~o.isIter
                 /\ ~StartsWith(o.text, "http") ) => r = None

C4_Witness ==
    /\ norm.pc = "returned"
    /\ norm.output = ObjectResponse(FALSE, "<object>",
                                    Some(<< StrItem("log"), UrlItem("https://h/i2.png") >>))
    /\ norm.result = Some("https://h/i2.png")

----------------------------------------------------------------------------
(* move_to_processed called twice with folders of one name *)

\* the first call is given the folder queue/<Names[1]>; the second call
\* waits for a folder of that name
MoveInit ==
    /\ queueRoot = TRUE
    /\ \E c \in FolderContents :
          queue = [n \in NameSet |-> IF n = Names[1] THEN Folder(1, c) ELSE NoFolder]
    /\ processed \in ProcessedConfigs
    /\ processedRoot = (processed # {})
    /\ enhancedDirs = {}
    /\ enhanced = {}
    /\ clock = 0
    /\ fs0 = fsVars
    /\ proc = [p \in Procs |->
                 IF p = 1
                 THEN [selected |-> Some(Names[1]), selId |-> 1]
                      @@ NewProc("move_to_processed", FALSE, TRUE)
                 ELSE NewProc("waiting", FALSE, TRUE)]
    /\ norm = NormIdle
    /\ eval = EvalIdle
    /\ rerun = RerunIdle

\* once the first call has returned, a new folder is created in the queue
\* under the same name and the second call is made with it
Requeue(entries) ==
    /\ proc[1].pc = "done"
    /\ proc[2].pc = "waiting"
    /\ queue[Names[1]] = NoFolder
    /\ queue' = [queue EXCEPT ![Names[1]] = Folder(2, entries)]
    /\ proc' = Set(2, [pc |-> "move_to_processed", selected |-> Some(Names[1]),
                       selId |-> 2])
    /\ UNCHANGED << queueRoot, processedRoot, processed, enhancedDirs, enhanced,
                    clock, fixed >>

MoveNext ==
    \/ Tick
    \/ \E p \in Procs : MoveChoose(p)
    \/ \E p \in Procs : MoveRename(p, Returned)
    \/ \E c \in FolderContents : Requeue(c)

MoveSpec == MoveInit /\ [][MoveNext]_vars

\* C5: after each call the folder it was given is no longer in the queue;
\* when both calls are over each has a destination under the processed
\* root, the two differ, the second is the name with a timestamp suffix,
\* each destination holds the folder its call moved, and what the processed
\* root held before is still there.
C5_TwoDistinctDestinations ==
    LET name == Names[1]
        over(p) == proc[p].pc \in {"done", "crashed"}
        holds(p) == \E e \in processed :
                        e.dest = proc[p].movedTo[1] /\ e.folder.id = proc[p].selId
    IN  /\ (over(1) /\ proc[2].pc = "waiting") =>
              /\ queue[name] = NoFolder
              /\ proc[1].movedTo # None /\ holds(1)
        /\ (over(1) /\ over(2)) =>
              /\ queue[name] = NoFolder
              /\ proc[1].movedTo # None /\ proc[2].movedTo # None
              /\ proc[1].movedTo # proc[2].movedTo
              /\ \E t \in 0..MaxClock : proc[2].movedTo = Some(name \o "-" \o TimeStamp(t))
              /\ holds(1) /\ holds(2)
              /\ fs0[4] \subseteq processed

----------------------------------------------------------------------------
(* The evaluation script, run_eval.py *)

\* most source images, and how many of the registered models a run is
\* followed through
MaxSources == 2
MaxModels == 2

\* the keys of MODELS, in the order of the dict
MODEL_NAMES ==
    << "flux-kontext-pro", "flux-1.1-pro", "qwen-image-edit", "qwen-image-edit-plus",
       "nano-banana", "nano-banana-pro" >>

\* MODELS.items(), cut at MaxModels
MODELS == SubSeq(MODEL_NAMES, 1, IF MaxModels < Len(MODEL_NAMES) THEN MaxModels
                                 ELSE Len(MODEL_NAMES))

\* the i-th source image
SourceName(i) == "s" \o ToString(i) \o ".png"

\* what the source directory may hold: n PNG files beside a JPEG
SourceEntries ==
    {{File(SourceName(i)) : i \in 1..n} \cup {File("s0.jpg")} : n \in 0..MaxSources}

\* Path.stem: the name without its last suffix
Stem(name) == SubSeq(name, 1, Len(name) - Len(Suffix(name)))

\* SOURCE_DIR.glob("*.png"), sorted
glob_png(entries) == Sorted({e.name : e \in {x \in entries : EndsWith(x.name, ".png")}})

\* run_model's value for a response replicate.run returned
run_model_url(output) ==
    IF output.isNone THEN None
    ELSE IF output.hasUrl THEN Some(output.url)
    ELSE IF output.isStr
         THEN IF BeginsHttp(output.text) THEN Some(output.text) ELSE None
         ELSE LET hits == IF output.isIter
                          THEN {i \in 1..Len(output.items) : ItemMatches(output.items[i])}
                          ELSE {}
              IN  IF hits # {}
                  THEN Some(ItemLocation(output.items[CHOOSE i \in hits : \A j \in hits : i <= j]))
                  ELSE IF BeginsHttp(output.text) THEN Some(output.text)
                  ELSE None

\* run_model: None when building the inputs or the remote call raises
run_model(env) == IF ~env.call THEN None ELSE run_model_url(env.output)

\* download_image: what it returns and what it leaves at output_path
download_image(env) ==
    IF ~env.download THEN Result(FALSE, "none")
    ELSE IF env.write = "open" THEN Result(FALSE, "none")
    ELSE IF env.write = "write" THEN Result(FALSE, "partial")
    ELSE Result(TRUE, "complete")

\* the environments of one (image, model) pair
EvalEnvs == {env \in ImageEnvs : env.encode}

\* the status main records for a pair, and what the pair leaves at its
\* output path
pair_outcome(env) ==
    IF Truthy(run_model(env))
    THEN IF download_image(env).ret
         THEN [status |-> "success", file |-> "complete"]
         ELSE [status |-> "download_failed", file |-> download_image(env).file]
    ELSE [status |-> "api_failed", file |-> "none"]

\* an inner loop that is left after its first pass
EvalAdvance_first_model_only ==
    IF eval.img < Len(eval.source_images)
    THEN [pc |-> "image_to_data_uri", img |-> eval.img + 1]
    ELSE [pc |-> "log"]

\* the end of one pass of the inner loop: the next model, the next image, or
\* the summary
EvalAdvance ==
    IF eval.model < Len(MODELS) THEN [pc |-> "run_model", model |-> eval.model + 1]
    ELSE IF eval.img < Len(eval.source_images)
         THEN [pc |-> "image_to_data_uri", img |-> eval.img + 1]
         ELSE [pc |-> "log"]

\* a line of results.txt
LogLine(r) == "  " \o r[1] \o " + " \o r[2] \o ": " \o r[3]

EvalSet(changes) == changes @@ eval

\* check_api_key
EvalCheckApiKey ==
    /\ eval.pc = "check_api_key"
    /\ eval' = IF ~eval.apiKey THEN EvalSet([pc |-> "exit", exit |-> 1])
               ELSE EvalSet([pc |-> "glob"])
    /\ UNCHANGED << fsVars, clock, fs0, proc, norm, rerun >>

\* main, lines 182-193: the source images, the run directory
EvalGlob ==
    /\ eval.pc = "glob"
    /\ LET source_images == glob_png(eval.entries)
       IN  eval' = IF source_images = << >> THEN EvalSet([pc |-> "exit", exit |-> 1])
                   ELSE EvalSet([pc |-> "image_to_data_uri",
                                 source_images |-> source_images, img |-> 1,
                                 run_dir |-> Some(TimeStamp(clock))])
    /\ UNCHANGED << fsVars, clock, fs0, proc, norm, rerun >>

\* main, lines 200-205: image_to_data_uri(img_path), which raises when the
\* file cannot be read
EvalEncode ==
    /\ eval.pc = "image_to_data_uri"
    /\ eval' = IF eval.source_images[eval.img] \in eval.unreadable
               THEN EvalSet([pc |-> "crashed", exit |-> 1])
               ELSE EvalSet([pc |-> "run_model", model |-> 1])
    /\ UNCHANGED << fsVars, clock, fs0, proc, norm, rerun >>

\* main, lines 207-222: one model on one image
EvalPair(env) ==
    /\ eval.pc = "run_model"
    /\ LET img == eval.source_images[eval.img]
           model_name == MODELS[eval.model]
           o == pair_outcome(env)
           output_path == Stem(img) \o "_" \o model_name \o ".png"
       IN  eval' = EvalSet(EvalAdvance @@
                     [results |-> Append(eval.results, << img, model_name, o.status >>),
                      located |-> Append(eval.located,
                                         env.call /\ Truthy(get_output_url(env.output))),
                      files |-> IF o.file = "none" THEN eval.files
                                ELSE {f \in eval.files : f.name # output_path}
                                     \cup {[name |-> output_path, content |-> o.file]}])
    /\ UNCHANGED << fsVars, clock, fs0, proc, norm, rerun >>

\* main, lines 224-244: the summary and results.txt
EvalLog ==
    /\ eval.pc = "log"
    /\ eval' = EvalSet([pc |-> "done", exit |-> 0,
                        log |-> Some([i \in 1..Len(eval.results) |->
                                         LogLine(eval.results[i])])])
    /\ UNCHANGED << fsVars, clock, fs0, proc, norm, rerun >>

EvalInit ==
    /\ Quiet
    /\ norm = NormIdle
    /\ rerun = RerunIdle
    /\ \E key \in BOOLEAN, entries \in SourceEntries :
       \E unreadable \in SUBSET {e.name : e \in {x \in entries : EndsWith(x.name, ".png")}} :
          eval = [pc |-> "check_api_key", apiKey |-> key, entries |-> entries,
                  unreadable |-> unreadable] @@ EvalIdle

EvalNext ==
    \/ EvalCheckApiKey
    \/ EvalGlob
    \/ EvalEncode
    \/ \E env \in EvalEnvs : EvalPair(env)
    \/ EvalLog

EvalSpec == EvalInit /\ [][EvalNext]_vars

\* what main's results and files must be once it has returned
C10_Results ==
    LET images == glob_png(eval.entries)
        M == Len(MODELS)
        res == eval.results
        path(k) == Stem(res[k][1]) \o "_" \o res[k][2] \o ".png"
        written(k) == [name |-> path(k), content |-> "complete"] \in eval.files
    IN  eval.pc = "done" =>
            /\ Len(res) = Len(images) * M
            /\ \A k \in 1..Len(res) :
                  /\ res[k][1] = images[((k - 1) \div M) + 1]
                  /\ res[k][2] = MODELS[((k - 1) % M) + 1]
                  /\ res[k][3] \in {"success", "api_failed", "download_failed"}
                  /\ res[k][3] = "success" <=> written(k)
                  /\ res[k][3] = "api_failed" <=> ~eval.located[k]
                  /\ res[k][3] = "download_failed" <=> (eval.located[k] /\ ~written(k))
            /\ eval.log # None
            /\ Len(eval.log[1]) = Len(res)
            /\ \A k \in 1..Len(res) : eval.log[1][k] = LogLine(res[k])

\* whatever a pair's outcome, main goes on to the next pair or to the summary
C10_PairStep ==
    (eval.pc = "run_model" /\ eval' # eval) =>
        /\ eval'.pc \in {"run_model", "image_to_data_uri", "log"}
        /\ Len(eval'.results) = Len(eval.results) + 1
        /\ SubSeq(eval'.results, 1, Len(eval.results)) = eval.results

----------------------------------------------------------------------------
(* process_folder invoked again on the same, unchanged queue folder *)

\* invocations of process_folder followed after the first
MaxRuns == 1
\* largest number of images in the folder process_folder is re-invoked on
MaxRerunImages == 2

\* what that folder may hold: n photographs beside a text file and a
\* subdirectory
RerunContents ==
    {{File(ImgName(i)) : i \in 1..n} \cup {File("notes.txt"), Dir("old.png")} :
        n \in 0..MaxRerunImages}

\* process_folder has returned (s, n) with s = n
FullSuccess(p) == proc[p].ret # None /\ proc[p].ret[1][1] = proc[p].ret[1][2]

\* the file names now in the selected folder's output directory
OutputNames(p) == {f.name : f \in OutputFiles(p)}

\* the caller of process_folder, with the folder queue/<Names[1]> selected
RerunProc ==
    [pc |-> "process_folder", selected |-> Some(Names[1]), selId |-> 1, listed |-> TRUE]
    @@ NewProc("process_folder", FALSE, TRUE)

RerunInit ==
    /\ queueRoot = TRUE
    /\ \E c \in RerunContents :
          queue = [n \in NameSet |-> IF n = Names[1] THEN Folder(1, c) ELSE NoFolder]
    /\ processedRoot = FALSE
    /\ processed = {}
    /\ enhancedDirs = {}
    /\ enhanced = {}
    /\ clock = 0
    /\ fs0 = fsVars
    /\ proc = [p \in Procs |-> IF p = 1 THEN RerunProc ELSE NewProc("off", FALSE, FALSE)]
    /\ norm = NormIdle
    /\ eval = EvalIdle
    /\ rerun = RerunIdle

\* process_folder has returned and the tool is invoked again on the folder,
\* which nothing has changed
Reinvoke ==
    /\ proc[1].pc = "summary"
    /\ rerun.runs < MaxRuns
    /\ rerun' = [runs |-> rerun.runs + 1,
                 full |-> rerun.full /\ FullSuccess(1),
                 clock0 |-> rerun.clock0,
                 names1 |-> IF rerun.runs = 0 THEN OutputNames(1) ELSE rerun.names1]
    /\ proc' = [proc EXCEPT ![1] = RerunProc]
    /\ UNCHANGED << fsVars, clock, fs0, norm, eval >>

RerunNext ==
    \/ Tick
    \/ ProcessFolderStart(1)
    \/ \E env \in ImageEnvs : ProcessImage(1, env)
    \/ Sleep(1)
    \/ Reinvoke

RerunSpec == RerunInit /\ [][RerunNext]_vars

\* C11 as stated: whenever process_folder returns from a run, all runs so
\* far having succeeded for every image, the output directory holds one
\* file per image and the file names it held after the first run.
C11_SameNamesAfterAnyRun ==
    (proc[1].pc = "summary" /\ rerun.full /\ FullSuccess(1)) =>
        /\ Cardinality(OutputNames(1)) = proc[1].ret[1][2]
        /\ rerun.runs >= 1 => OutputNames(1) = rerun.names1

\* C11, amended: the same, for runs that all fall on one calendar day.
C11_SameNamesWithinADay ==
    ( /\ proc[1].pc = "summary" /\ rerun.full /\ FullSuccess(1)
      /\ DateStamp(clock) = DateStamp(rerun.clock0) ) =>
        /\ Cardinality(OutputNames(1)) = proc[1].ret[1][2]
        /\ rerun.runs >= 1 => OutputNames(1) = rerun.names1
        /\ \A f \in OutputFiles(1) : f.content = "complete"

C11_Witness ==
    /\ proc[1].pc = "summary"
    /\ rerun.runs = MaxRuns
    /\ rerun.full /\ FullSuccess(1)
    /\ proc[1].total >= 2
    /\ clock > rerun.clock0
    /\ DateStamp(clock) = DateStamp(rerun.clock0)

----------------------------------------------------------------------------
(* Two invocations of the production CLI on one queue root *)

\* largest number of images in the folder both invocations may select
MaxConcImages == 1

\* the lines typed at the folder menu of concurrent invocations
ConcMenuInputs == {"1", "2", "q"}

\* what happens to an image of concurrent invocations: it cannot be read, or
\* every step succeeds
ConcEnvs ==
    {ImageEnv(FALSE, FALSE, NoneResponse, FALSE, "open"),
     ImageEnv(TRUE, TRUE, ObjectResponse(TRUE, "<object>", None), TRUE, "ok")}

ConcInit ==
    /\ queueRoot = TRUE
    /\ \E n \in 1..MaxConcImages :
          queue = [name \in NameSet |->
                      IF name = Names[1] THEN Folder(1, {File(ImgName(i)) : i \in 1..n})
                      ELSE Folder(2, {File(ImgName(1)), File(ImgName(2))})]
    /\ processed \in ProcessedConfigs
    /\ processedRoot = (processed # {})
    /\ enhancedDirs = {}
    /\ enhanced = {}
    /\ clock = 0
    /\ fs0 = fsVars
    /\ proc = [p \in Procs |-> NewProc("start", FALSE, TRUE)]
    /\ norm = NormIdle
    /\ eval = EvalIdle
    /\ rerun = RerunIdle

\* a step of either invocation, in any order
ConcNext ==
    \/ Tick
    \/ \E p \in Procs :
        \/ Start(p)
        \/ CheckApiKey(p)
        \/ GetQueueFolders(p)
        \/ MenuShow(p)
        \/ \E typed \in ConcMenuInputs : MenuPrompt(p, typed)
        \/ \E typed \in YesNoInputs : Confirm(p, typed)
        \/ ProcessFolderStart(p)
        \/ \E env \in ConcEnvs : ProcessImage(p, env)
        \/ Sleep(p)
        \/ Summary(p)
        \/ \E typed \in YesNoInputs : MovePrompt(p, typed)
        \/ MoveChoose(p)
        \/ MoveRename(p, Returned)

ConcSpec == ConcInit /\ [][ConcNext]_vars

\* the invocation is in process_folder's loop on the folder it selected
Processing(p) ==
    proc[p].selected # None /\ proc[p].pc \in {"process_image", "sleep"}

\* the folder the invocation selected is no longer at its place in the queue
FolderGone(p) ==
    proc[p].selected # None /\ queue[proc[p].selected[1]].id # proc[p].selId

\* nothing keeps an invocation at the menu from selecting the folder another
\* invocation is processing
C12_NoLock ==
    \A p \in Procs : \A q \in Procs \ {p} :
        (proc[p].pc = "menu_prompt" /\ Processing(q)) =>
            \A k \in 1..Len(proc[p].folders) :
                proc[p].folders[k] = proc[q].selected[1] =>
                    ENABLED ( /\ MenuPrompt(p, ToString(k))
                              /\ proc'[p].pc = "confirm"
                              /\ proc'[p].selected = proc[q].selected )

\* a step that lists or renames the selected folder after it has left the
\* queue dies of the exception and changes nothing on disk; a step that
\* reads an image of it counts a failure
C12_StaleStep ==
    \A p \in Procs :
        (FolderGone(p) /\ proc'[p] # proc[p]) =>
            /\ proc[p].pc \in {"confirm", "process_folder", "rename"} =>
                  proc'[p].pc = "crashed" /\ proc'[p].exit = 1 /\ fsVars' = fsVars
            /\ proc[p].pc = "process_image" =>
                  /\ ~proc'[p].outs[Len(proc'[p].outs)].ret
                  /\ proc'[p].success = proc[p].success

\* C12: no lock guards two concurrent invocations: while one works on a
\* folder the other can still select it, so both come to process the same
\* folder; and when one has moved the folder away, the other's listing or
\* rename of it acts on a folder that is gone and fails, the rename also
\* when both chose their destination before either renamed.
C12_UnguardedRace == []C12_NoLock /\ [][C12_StaleStep]_vars

\* both invocations processed the same folder at the same time and with
\* success, the first moved it to the processed root, and the second, its
\* destination already chosen, died renaming the folder that was gone
C12_Witness ==
    /\ proc[1].selId = proc[2].selId
    /\ proc[1].selId # 0
    /\ proc[1].overlap \/ proc[2].overlap
    /\ proc[1].movedTo # None
    /\ proc[2].summary = "complete"
    /\ proc[2].dest = proc[1].dest
    /\ proc[2].pc = "crashed"

====
